---- MODULE Spec2Model ----
(***************************************************************************)
(* Model of the VoiceConnect backend (Express handlers over the Mongoose   *)
(* collections User, Connection, ContactReveal, Post and Comment).         *)
(*                                                                         *)
(* One action per request handler.  A request is the pair of the identity  *)
(* its bearer token proves (Anon when it carries no valid token) and the   *)
(* route parameters / body.  The response of the last request is kept in   *)
(* resp, so that status codes and response bodies can be stated.           *)
(***************************************************************************)
EXTENDS Integers, FiniteSets, Sequences, TLC

\* ---------------------------------------------------------------- bounds

\* Registered, active users (documents of the User collection).  No handler
\* deletes or deactivates a user.
Users == {"u1", "u2", "u3"}

\* A well-formed id that names no User document.
NoUser == "u0"

\* Every id a route parameter may carry.
Ids == Users \cup {NoUser}

\* The identity of a request without a (valid) bearer token: req.user is
\* undefined.
Anon == "anon"

\* The client addresses (req.ip) the rate limiter tells apart.
IPs == {"ip1", "ip2"}

\* The two users whose requests the two-party scenarios enumerate.
Pair == {"u1", "u2"}

\* Cap on stats.connectionCount (an unbounded Number in the code).
MaxCount == 2

\* Cap on the number of Post documents ever created.
MaxPosts == 2

\* Cap on the number of Comment documents ever created.
MaxComments == 7

\* Cap on the number of notifications ever enqueued.
MaxNotifications == 4

\* Cap on the number of requests one client sends in one window.
MaxRequests == 102

\* ----------------------------------------------------------------- state

VARIABLES
    connections,      \* Connection collection: set of documents
    stats,            \* User.stats.connectionCount, per user
    settings,         \* User.settings.autoAcceptConnections, per user
    privateContact,   \* User.profile.privateContact, per user
    contactRevealed,  \* User.profile.contactRevealed, per user
    reveals,          \* ContactReveal collection: set of documents
    posts,            \* Post collection: set of documents
    nextPostId,       \* the _id the next Post document gets
    postCount,        \* User.stats.postCount, per user
    storage,          \* User.storage.googleDriveToken, per user
    comments,         \* Comment collection: set of documents
    nextCommentId,    \* the _id the next Comment document gets
    notificationQueue,    \* NotificationService.notificationQueue
    isProcessing,         \* NotificationService.isProcessing
    drain,                \* where the pending call of processQueue stands
    processing,           \* the notification processNotification works on
    nextNotificationId,   \* identity of the next notification object
    enqueued,             \* history: notifications in the order of push
    started,              \* history: order processNotification was started
    processed,            \* history: notifications processNotification ended
    hits,                 \* generalLimiter's store: hits per IP in the window
    requests,             \* history: requests per IP in the window
    limited,              \* the last request seen by the limiter, and its status
    routed,               \* the last request dispatched and its handler
    inflight,             \* connection requests between their check and save
    contactOps,           \* contact reveal handlers between their awaits
    err,                  \* the error last passed to errorHandler
    res,                  \* the response errorHandler sent for it
    resp              \* the last request and the response to it

vars == <<connections, stats, settings, privateContact, contactRevealed,
          reveals, posts, nextPostId, postCount, storage, comments,
          nextCommentId, notificationQueue, isProcessing, drain, processing,
          nextNotificationId, enqueued, started, processed, hits, requests,
          limited, routed, inflight, contactOps, err,
          res, resp>>

\* The state the connection handlers write.
connVars == <<connections, stats>>

\* The state of the comment feature.
commentVars == <<comments, nextCommentId>>

\* The state of the notification service, and the histories kept of it.
notifVars == <<notificationQueue, isProcessing, drain, processing,
               nextNotificationId, enqueued, started, processed>>

\* The last run of the error middleware.
errVars == <<err, res>>

\* The store of the general rate limiter, and the history kept of it.
limiterVars == <<hits, requests, limited>>

\* The state the handlers of the first four controllers never touch.
extVars == <<commentVars, notifVars, errVars, limiterVars, routed, inflight,
            contactOps>>

\* The state of the contact-reveal feature.
contactVars == <<privateContact, contactRevealed, reveals>>

\* The state the post handlers write.
postVars == <<posts, nextPostId, postCount>>

\* Absent value of an optional field (JavaScript undefined).
Undefined == "undefined"

\* A Connection document.  Dates are abstracted to "set or not".  The
\* collection holds at most one document per (requesterId, recipientId,
\* status, dates), which the handlers below never exceed.
Connection(requesterId, recipientId, status, acceptedAt, respondedAt) ==
    [requesterId |-> requesterId, recipientId |-> recipientId,
     status |-> status, acceptedAt |-> acceptedAt, respondedAt |-> respondedAt]

\* A ContactReveal document.  Documents are identified by their content: two
\* rejected requests of the same direction are one element.
ContactReveal(requesterId, recipientId, status) ==
    [requesterId |-> requesterId, recipientId |-> recipientId, status |-> status]

\* A Post document; duration is audio.duration, in seconds.
Post(id, authorId, privacy, isActive, duration) ==
    [id |-> id, authorId |-> authorId, privacy |-> privacy, isActive |-> isActive,
     duration |-> duration]

\* A Comment document; parentCommentId is NoComment for a top-level comment,
\* duration is audio.duration, in seconds.
Comment(id, postId, authorId, parentCommentId, depth, duration, isActive) ==
    [id |-> id, postId |-> postId, authorId |-> authorId,
     parentCommentId |-> parentCommentId, depth |-> depth,
     duration |-> duration, isActive |-> isActive]

\* An error object as errorHandler reads it: err.name, err.code ("none"
\* when absent), err.message and the own property statusCode (0 when
\* absent).
Err(name, code, message, statusCode) ==
    [name |-> name, code |-> code, message |-> message,
     statusCode |-> statusCode]

\* The last request (handler, authenticated caller, route parameter) and its
\* response (HTTP status, and the part of the body the properties use).
Response(op, caller, target, code, data) ==
    [op |-> op, caller |-> caller, target |-> target, code |-> code, data |-> data]

\* ------------------------------------------------------ Connection model

\* Mutant: the hook lets every document through.
PreSaveSelfCheck_Always(c) == TRUE

\* connectionSchema.pre('save') #1: a self-connection is refused.
PreSaveSelfCheck(c) == c.requesterId # c.recipientId

\* connectionSchema.pre('save') #2: timestamps follow a modified status.
PreSaveTimestamps(c, statusModified) ==
    IF statusModified /\ c.status = "accepted"
    THEN [c EXCEPT !.acceptedAt = TRUE, !.respondedAt = TRUE]
    ELSE IF statusModified /\ c.status \in {"rejected", "blocked"}
    THEN [c EXCEPT !.respondedAt = TRUE]
    ELSE c

\* Mutant: any user may answer a pending request.
canRespond_AnyUser(c, userId) == c.status = "pending"

\* Mutant: the recipient may answer whatever the status.
canRespond_AnyStatus(c, userId) == c.recipientId = userId

\* connectionSchema.methods.canRespond
canRespond(c, userId) == c.status = "pending" /\ c.recipientId = userId

\* Mutant: the query looks in the direction of the request only.
FindBetween_OneWay(a, b) ==
    {c \in connections : c.requesterId = a /\ c.recipientId = b}

\* The documents matched by
\*   { $or: [{requesterId: a, recipientId: b}, {requesterId: b, recipientId: a}] }
FindBetween(a, b) ==
    {c \in connections :
        \/ (c.requesterId = a /\ c.recipientId = b)
        \/ (c.requesterId = b /\ c.recipientId = a)}

\* Mutant: the query leaves out status: 'accepted'.
areConnected_AnyStatus(a, b) == FindBetween(a, b)

\* connectionSchema.statics.areConnected and the same inline query.
areConnected(a, b) == {c \in FindBetween(a, b) : c.status = "accepted"}

\* User.findByIdAndUpdate(id, {$inc: {'stats.connectionCount': d}}) for the
\* two users of a connection.
IncBoth(st, a, b, d) ==
    [u \in Users |-> IF u = a \/ u = b THEN st[u] + d ELSE st[u]]

\* ------------------------------------------------------------------ Init

Init ==
    /\ connections = {}
    /\ stats = [u \in Users |-> 0]
    /\ settings = [u \in Users |-> FALSE]
    /\ privateContact = [u \in Users |-> Undefined]
    /\ contactRevealed = [u \in Users |-> FALSE]
    /\ reveals = {}
    /\ posts = {}
    /\ nextPostId = 1
    /\ postCount = [u \in Users |-> 0]
    /\ storage = [u \in Users |-> Undefined]
    /\ comments = {}
    /\ nextCommentId = 1
    /\ notificationQueue = <<>>
    /\ isProcessing = FALSE
    /\ drain = "idle"
    /\ processing = <<>>
    /\ nextNotificationId = 1
    /\ enqueued = <<>>
    /\ started = <<>>
    /\ processed = <<>>
    /\ hits = [ip \in IPs |-> 0]
    /\ requests = [ip \in IPs |-> 0]
    /\ limited = [ip |-> "none", guarded |-> FALSE, ordinal |-> 0, status |-> 0]
    /\ routed = [router |-> "none", method |-> "GET", path |-> <<>>,
                 handler |-> "none"]
    /\ inflight = {}
    /\ contactOps = {}
    /\ err = Err("Error", "none", "", 0)
    /\ res = [statusCode |-> 0, success |-> FALSE, message |-> "",
              stack |-> FALSE, details |-> FALSE]
    /\ resp = Response("none", Anon, NoUser, 0, {})

\* ------------------------------------------------ connectionController

\* POST /api/connections/:userId/request (verifyToken)
sendConnectionRequest(caller, userId) ==
    LET existing == FindBetween(caller, userId)
        pending  == PreSaveTimestamps(
                        Connection(caller, userId, "pending", FALSE, FALSE), FALSE)
        accepted == PreSaveTimestamps(
                        [pending EXCEPT !.status = "accepted", !.acceptedAt = TRUE], TRUE)
        R(code, data) == Response("sendConnectionRequest", caller, userId,
                                  code, data)
    IN
    IF userId \notin Users
    THEN /\ resp' = R(404, {})
         /\ UNCHANGED <<extVars, connVars, settings, contactVars, postVars, storage>>
    ELSE IF caller = userId
    THEN /\ resp' = R(400, {"self"})
         /\ UNCHANGED <<extVars, connVars, settings, contactVars, postVars, storage>>
    ELSE IF existing # {}
    THEN \E existingConnection \in existing :
         /\ resp' = R(400, {existingConnection.status})
         /\ UNCHANGED <<extVars, connVars, settings, contactVars, postVars, storage>>
    ELSE IF ~PreSaveSelfCheck(pending)
    THEN /\ resp' = R(500, {})
         /\ UNCHANGED <<extVars, connVars, settings, contactVars, postVars, storage>>
    ELSE IF settings[userId]
    THEN /\ stats[caller] < MaxCount /\ stats[userId] < MaxCount
         /\ connections' = connections \cup {accepted}
         /\ stats' = IncBoth(stats, caller, userId, 1)
         /\ resp' = R(200, {"accepted"})
         /\ UNCHANGED <<extVars, settings, contactVars, postVars, storage>>
    ELSE /\ connections' = connections \cup {pending}
         /\ resp' = R(201, {"pending"})
         /\ UNCHANGED <<extVars, stats, settings, contactVars, postVars, storage>>

\* The unique index { requesterId: 1, recipientId: 1 }: an insert is
\* refused (E11000) when a document with the same requester and the same
\* recipient, in that order, is stored.
UniqueIndexAllows(c) ==
    ~\E d \in connections :
        d.requesterId = c.requesterId /\ d.recipientId = c.recipientId

\* The state the stepwise connection requests leave alone.
raceFrame == <<commentVars, notifVars, errVars, limiterVars, routed,
               contactOps, settings, contactVars, postVars, storage>>

\* sendConnectionRequest up to `await connection.save()`: the recipient is
\* loaded and the existence query has run.  A request that passes both is
\* in flight, holding the recipient document it loaded.
sendConnectionRequestCheck(caller, userId) ==
    LET existing == FindBetween(caller, userId)
        R(code, data) == Response("sendConnectionRequest", caller, userId,
                                  code, data)
    IN
    /\ ~\E r \in inflight : r.caller = caller
    /\ IF userId \notin Users
       THEN /\ resp' = R(404, {})
            /\ UNCHANGED <<inflight, connVars>>
       ELSE IF caller = userId
       THEN /\ resp' = R(400, {"self"})
            /\ UNCHANGED <<inflight, connVars>>
       ELSE IF existing # {}
       THEN \E existingConnection \in existing :
            /\ resp' = R(400, {existingConnection.status})
            /\ UNCHANGED <<inflight, connVars>>
       ELSE /\ inflight' = inflight \cup {[caller |-> caller, userId |-> userId,
                                           autoAccept |-> settings[userId]]}
            /\ UNCHANGED <<resp, connVars>>
    /\ UNCHANGED raceFrame

\* sendConnectionRequest from `await connection.save()` on: the insert, then
\* the auto-accept branch or the plain answer.
sendConnectionRequestSave(r) ==
    LET pending  == PreSaveTimestamps(
                        Connection(r.caller, r.userId, "pending", FALSE, FALSE), FALSE)
        accepted == PreSaveTimestamps(
                        [pending EXCEPT !.status = "accepted", !.acceptedAt = TRUE], TRUE)
        R(code, data) == Response("sendConnectionRequest", r.caller, r.userId,
                                  code, data)
    IN
    /\ r \in inflight
    /\ inflight' = inflight \ {r}
    /\ IF ~PreSaveSelfCheck(pending) \/ ~UniqueIndexAllows(pending)
       THEN /\ resp' = R(500, {})
            /\ UNCHANGED connVars
       ELSE IF r.autoAccept
       THEN /\ stats[r.caller] < MaxCount /\ stats[r.userId] < MaxCount
            /\ connections' = connections \cup {accepted}
            /\ stats' = IncBoth(stats, r.caller, r.userId, 1)
            /\ resp' = R(200, {"accepted"})
       ELSE /\ connections' = connections \cup {pending}
            /\ resp' = R(201, {"pending"})
            /\ UNCHANGED stats
    /\ UNCHANGED raceFrame

\* PUT /api/connections/:requestId (verifyToken, validateConnectionResponse:
\* status is 'accepted' or 'rejected').  A request id names the document it
\* was issued for.
respondToRequest(caller, requestId, status) ==
    LET R(code, data) == Response("respondToRequest", caller, requestId,
                                  code, data)
    IN
    IF requestId \notin connections
    THEN /\ resp' = R(404, {status})
         /\ UNCHANGED <<extVars, connVars, settings, contactVars, postVars, storage>>
    ELSE IF ~canRespond(requestId, caller)
    THEN /\ resp' = R(403, {status})
         /\ UNCHANGED <<extVars, connVars, settings, contactVars, postVars, storage>>
    ELSE LET responded == [requestId EXCEPT !.status = status, !.respondedAt = TRUE]
             answered  == IF status = "accepted"
                          THEN [responded EXCEPT !.acceptedAt = TRUE]
                          ELSE responded
             saved     == PreSaveTimestamps(answered, TRUE)
         IN
         /\ status = "accepted" =>
                stats[requestId.requesterId] < MaxCount /\ stats[caller] < MaxCount
         /\ stats' = IF status = "accepted"
                     THEN IncBoth(stats, requestId.requesterId, caller, 1)
                     ELSE stats
         /\ connections' = (connections \ {requestId}) \cup {saved}
         /\ resp' = R(200, {status})
         /\ UNCHANGED <<extVars, settings, contactVars, postVars, storage>>

\* DELETE /api/connections/:userId (verifyToken)
removeConnection(caller, userId) ==
    LET found == areConnected(caller, userId)
        R(code) == Response("removeConnection", caller, userId, code, {})
    IN
    IF found = {}
    THEN /\ resp' = R(404)
         /\ UNCHANGED <<extVars, connVars, settings, contactVars, postVars, storage>>
    ELSE \E c \in found :
         /\ stats[caller] > 0
         /\ userId \in Users => stats[userId] > 0
         /\ connections' = connections \ {c}
         /\ stats' = IncBoth(stats, caller, userId, -1)
         /\ resp' = R(200)
         /\ UNCHANGED <<extVars, settings, contactVars, postVars, storage>>

\* POST /api/connections/:userId/block (verifyToken)
blockUser(caller, userId) ==
    LET found == FindBetween(caller, userId)
        R(code) == Response("blockUser", caller, userId, code, {})
    IN
    IF userId \notin Users
    THEN /\ resp' = R(404)
         /\ UNCHANGED <<extVars, connVars, settings, contactVars, postVars, storage>>
    ELSE IF found # {}
    THEN \E c \in found :
         LET blocked == [c EXCEPT !.status = "blocked", !.respondedAt = TRUE]
         IN
         IF ~PreSaveSelfCheck(blocked)
         THEN /\ resp' = R(500)
              /\ UNCHANGED <<extVars, connVars, settings, contactVars, postVars, storage>>
         ELSE /\ connections' = (connections \ {c})
                      \cup {PreSaveTimestamps(blocked, c.status # "blocked")}
              /\ resp' = R(200)
              /\ UNCHANGED <<extVars, stats, settings, contactVars, postVars, storage>>
    ELSE LET created == Connection(caller, userId, "blocked", FALSE, FALSE)
         IN
         IF ~PreSaveSelfCheck(created)
         THEN /\ resp' = R(500)
              /\ UNCHANGED <<extVars, connVars, settings, contactVars, postVars, storage>>
         ELSE /\ connections' = connections \cup {PreSaveTimestamps(created, TRUE)}
              /\ resp' = R(200)
              /\ UNCHANGED <<extVars, stats, settings, contactVars, postVars, storage>>

\* POST /api/connections/:userId/unblock (verifyToken)
unblockUser(caller, userId) ==
    LET found == {c \in FindBetween(caller, userId) : c.status = "blocked"}
        R(code) == Response("unblockUser", caller, userId, code, {})
    IN
    IF found = {}
    THEN /\ resp' = R(404)
         /\ UNCHANGED <<extVars, connVars, settings, contactVars, postVars, storage>>
    ELSE \E c \in found :
         /\ connections' = connections \ {c}
         /\ resp' = R(200)
         /\ UNCHANGED <<extVars, stats, settings, contactVars, postVars, storage>>

\* ---------------------------------------------------- ContactReveal model

\* contactRevealSchema.pre('save') #1: a self-request is refused.
RevealPreSaveSelfCheck(r) == r.requesterId # r.recipientId

\* contactRevealSchema.methods.canRespond
revealCanRespond(r, userId) == r.status = "pending" /\ r.recipientId = userId

\* contactRevealSchema.statics.isContactRevealed
isContactRevealed(userId1, userId2) ==
    {r \in reveals :
        /\ r.status = "accepted"
        /\ \/ (r.requesterId = userId1 /\ r.recipientId = userId2)
           \/ (r.requesterId = userId2 /\ r.recipientId = userId1)}

\* contactRevealSchema.statics.findPendingRequest
findPendingRequest(requesterId, recipientId) ==
    {r \in reveals :
        r.requesterId = requesterId /\ r.recipientId = recipientId
        /\ r.status = "pending"}

\* contactRevealSchema.statics.findAcceptedContacts, without the populate.
findAcceptedContacts(userId) ==
    {r \in reveals :
        r.status = "accepted" /\ (r.requesterId = userId \/ r.recipientId = userId)}

\* ----------------------------------------------------------- User model

\* Mutant: the path is loaded like any other.
DefaultProjection_Loaded(value) == value

\* profile.privateContact is declared select: false: a query that does not
\* name the path loads the document without it.
DefaultProjection(value) == Undefined

\* User.findById(id): the document as the default projection loads it.
FindUserById(id) ==
    [id |-> id,
     privateContact |-> DefaultProjection(privateContact[id]),
     contactRevealed |-> contactRevealed[id]]

\* populate('requesterId recipientId', '... profile.privateContact'): the
\* projection names the path, so the value is loaded.
PopulateContact(id) == [id |-> id, privateContact |-> privateContact[id]]

\* res.json drops a key whose value is undefined: the contacts a body
\* discloses are those with a value.
Disclosed(entries) == {e \in entries : e.privateContact # Undefined}

\* ---------------------------------------------------- contactController

\* POST /api/contact/:userId/request (verifyToken)
requestContactReveal(caller, userId) ==
    LET R(code, data) == Response("requestContactReveal", caller, userId, code, data)
        created == ContactReveal(caller, userId, "pending")
    IN
    IF userId \notin Users
    THEN /\ resp' = R(404, {})
         /\ UNCHANGED <<extVars, connVars, settings, contactVars, postVars, storage>>
    ELSE IF caller = userId
    THEN /\ resp' = R(400, {"self"})
         /\ UNCHANGED <<extVars, connVars, settings, contactVars, postVars, storage>>
    ELSE IF areConnected(caller, userId) = {}
    THEN /\ resp' = R(400, {"not connected"})
         /\ UNCHANGED <<extVars, connVars, settings, contactVars, postVars, storage>>
    ELSE IF isContactRevealed(caller, userId) # {}
    THEN /\ resp' = R(400, {"already revealed"})
         /\ UNCHANGED <<extVars, connVars, settings, contactVars, postVars, storage>>
    ELSE IF findPendingRequest(caller, userId) # {}
    THEN /\ resp' = R(400, {"already pending"})
         /\ UNCHANGED <<extVars, connVars, settings, contactVars, postVars, storage>>
    ELSE IF ~RevealPreSaveSelfCheck(created)
    THEN /\ resp' = R(500, {})
         /\ UNCHANGED <<extVars, connVars, settings, contactVars, postVars, storage>>
    ELSE /\ reveals' = reveals \cup {created}
         /\ resp' = R(201, {})
         /\ UNCHANGED <<extVars, connVars, settings, privateContact, contactRevealed, postVars, storage>>

\* contactRevealSchema.methods.accept: the recipient's profile.contactRevealed
\* is set, then the document is saved as accepted.
accept(r) ==
    /\ contactRevealed' = [contactRevealed EXCEPT ![r.recipientId] = TRUE]
    /\ reveals' = (reveals \ {r}) \cup {[r EXCEPT !.status = "accepted"]}

\* contactRevealSchema.methods.reject
reject(r) ==
    /\ reveals' = (reveals \ {r}) \cup {[r EXCEPT !.status = "rejected"]}
    /\ UNCHANGED contactRevealed

\* PUT /api/contact/:requestId (verifyToken, validateContactRevealResponse:
\* status is 'accepted' or 'rejected')
respondToContactRequest(caller, requestId, status) ==
    LET R(code) == Response("respondToContactRequest", caller, requestId, code, {status})
    IN
    IF requestId \notin reveals
    THEN /\ resp' = R(404)
         /\ UNCHANGED <<extVars, connVars, settings, contactVars, postVars, storage>>
    ELSE IF ~revealCanRespond(requestId, caller)
    THEN /\ resp' = R(403)
         /\ UNCHANGED <<extVars, connVars, settings, contactVars, postVars, storage>>
    ELSE /\ IF status = "accepted" THEN accept(requestId) ELSE reject(requestId)
         /\ resp' = R(200)
         /\ UNCHANGED <<extVars, connVars, settings, privateContact, postVars, storage>>

\* DELETE /api/contact/:requestId (verifyToken)
cancelContactRequest(caller, requestId) ==
    LET R(code) == Response("cancelContactRequest", caller, requestId, code, {})
    IN
    IF requestId \notin reveals
    THEN /\ resp' = R(404)
         /\ UNCHANGED <<extVars, connVars, settings, contactVars, postVars, storage>>
    ELSE IF requestId.requesterId # caller \/ requestId.status # "pending"
    THEN /\ resp' = R(403)
         /\ UNCHANGED <<extVars, connVars, settings, contactVars, postVars, storage>>
    ELSE /\ reveals' = reveals \ {requestId}
         /\ resp' = R(200)
         /\ UNCHANGED <<extVars, connVars, settings, privateContact, contactRevealed, postVars, storage>>

\* GET /api/contact/revealed (verifyToken): for every accepted ContactReveal
\* of the caller, the other user with that user's profile.privateContact.
getRevealedContacts(caller) ==
    LET contacts == findAcceptedContacts(caller)
        otherUser(contact) == IF contact.requesterId = caller
                              THEN PopulateContact(contact.recipientId)
                              ELSE PopulateContact(contact.requesterId)
        formattedContacts == {otherUser(contact) : contact \in contacts}
    IN
    /\ resp' = Response("getRevealedContacts", caller, caller, 200,
                        Disclosed(formattedContacts))
    /\ UNCHANGED <<extVars, connVars, settings, contactVars, postVars, storage>>

\* ------------------------------------------------------- userController

\* PUT /api/users/me (verifyToken, validateUpdateProfile).  updates is the
\* body: a record holding the fields the client sent.
updateProfile(caller, updates) ==
    /\ privateContact' =
           IF "privateContact" \in DOMAIN updates
           THEN [privateContact EXCEPT ![caller] = updates.privateContact]
           ELSE privateContact
    /\ settings' =
           IF "autoAcceptConnections" \in DOMAIN updates
           THEN [settings EXCEPT ![caller] = updates.autoAcceptConnections]
           ELSE settings
    /\ resp' = Response("updateProfile", caller, caller, 200, {})
    /\ UNCHANGED <<extVars, connVars, contactRevealed, reveals, postVars, storage>>

\* GET /api/users/:userId (optionalAuth): currentUserId is Anon when the
\* request carries no valid token.
getUserProfile(currentUserId, userId) ==
    LET R(code, data) == Response("getUserProfile", currentUserId, userId, code, data)
        user == FindUserById(userId)
        found == IF currentUserId # Anon /\ currentUserId # userId
                 THEN FindBetween(currentUserId, userId)
                 ELSE {}
        Reply(isConnected) ==
            /\ resp' = R(200, IF isConnected /\ user.contactRevealed
                              THEN Disclosed({[id |-> userId,
                                               privateContact |-> user.privateContact]})
                              ELSE {})
            /\ UNCHANGED <<extVars, connVars, settings, contactVars, postVars, storage>>
    IN
    IF userId \notin Users
    THEN /\ resp' = R(404, {})
         /\ UNCHANGED <<extVars, connVars, settings, contactVars, postVars, storage>>
    ELSE IF found = {}
    THEN Reply(FALSE)
    ELSE \E connection \in found : Reply(connection.status = "accepted")

\* ----------------------------------------------------------- Post model

\* privacy enum of postSchema.
Privacy == {"public", "connections_only", "private"}

\* postSchema.methods.canView.  userId is Anon for an anonymous request.
canView(post, userId) ==
    IF post.privacy = "public" THEN TRUE
    ELSE IF post.privacy = "private" THEN post.authorId = userId
    ELSE IF post.privacy = "connections_only"
    THEN IF post.authorId = userId THEN TRUE
         ELSE TRUE   \* "Placeholder, actual check in controller"
    ELSE FALSE

\* The outcome of a call: the documents a query selects, or an exception.
Returned(docs) == [threw |-> FALSE, docs |-> docs]
Threw == [threw |-> TRUE, docs |-> {}]

\* postSchema.statics.findByUser(userId, viewerId).  userId is the route
\* parameter, a String, which has no method equals: with a viewer the
\* condition `viewerId && !userId.equals(viewerId)` throws a TypeError.
\* Without a viewer (undefined, so the default null) the condition is false
\* and the query carries no privacy filter.
findByUser(userId, viewerId) ==
    IF viewerId # Anon
    THEN Threw
    ELSE Returned({post \in posts : post.authorId = userId /\ post.isActive})

\* ------------------------------------------------------ upload pipeline

\* config.MAX_AUDIO_DURATION, in seconds.
MAX_AUDIO_DURATION == 600

\* The min and max validators of postSchema.audio.duration and the max
\* validator of commentSchema.audio.duration, in seconds.
PostMinDuration == 1
PostMaxDuration == 600
CommentMaxDuration == 120

\* An uploaded audio file as a request carries it: file is "missing" (no
\* file part), "failed" (the upload to Google Drive fails) or "ok"; duration
\* is what ffprobe measures, in tenths of a second.
Audio(file, duration) == [file |-> file, duration |-> duration]

\* Math.round of a non-negative duration given in tenths of a second.
Round(tenths) == (tenths + 5) \div 10

\* handleAudioUpload: next() is called only for a file whose measured
\* duration does not exceed MAX_AUDIO_DURATION; otherwise the middleware
\* answers 400.
handleAudioUpload(audio) ==
    IF audio.file = "missing" THEN [next |-> FALSE, status |-> 400]
    ELSE IF audio.duration > MAX_AUDIO_DURATION * 10
    THEN [next |-> FALSE, status |-> 400]
    ELSE [next |-> TRUE, status |-> 0]

\* audioService.processAudio: the audio data of the document, or an Error.
processAudio(audio) ==
    IF audio.file = "failed"
    THEN [threw |-> TRUE, duration |-> 0]
    ELSE [threw |-> FALSE, duration |-> Round(audio.duration)]

\* The validators of postSchema that run before a Post document is saved.
PostValidators(post) ==
    /\ post.duration >= PostMinDuration
    /\ post.duration <= PostMaxDuration

\* Faulty variant: the comment validator accepts every duration.
CommentValidators_None(comment) == TRUE

\* The validators of commentSchema that run before a Comment document is
\* saved.
CommentValidators(comment) == comment.duration <= CommentMaxDuration

\* -------------------------------------------------------- postController

\* POST /api/posts (verifyToken, handleAudioUpload, validateCreatePost).
\* privacy is Undefined when the body has none.
createPost(caller, audio, privacy) ==
    LET R(code) == Response("createPost", caller, nextPostId, code, {})
        upload == handleAudioUpload(audio)
        audioData == processAudio(audio)
        post == Post(nextPostId, caller,
                     IF privacy = Undefined THEN "public" ELSE privacy, TRUE,
                     audioData.duration)
    IN
    IF ~upload.next
    THEN /\ resp' = R(upload.status)
         /\ UNCHANGED <<extVars, connVars, settings, contactVars, postVars, storage>>
    ELSE IF audioData.threw \/ ~PostValidators(post)
    THEN /\ resp' = R(500)
         /\ UNCHANGED <<extVars, connVars, settings, contactVars, postVars, storage>>
    ELSE /\ nextPostId <= MaxPosts
         /\ posts' = posts \cup {post}
         /\ nextPostId' = nextPostId + 1
         /\ postCount' = [postCount EXCEPT ![caller] = @ + 1]
         /\ resp' = R(201)
         /\ UNCHANGED <<extVars, connVars, settings, contactVars, storage>>

\* GET /api/posts/:postId (optionalAuth)
getPost(viewer, postId) ==
    LET R(code, data) == Response("getPost", viewer, postId, code, data)
        found == {post \in posts : post.id = postId /\ post.isActive}
    IN
    /\ IF found = {}
       THEN resp' = R(404, {})
       ELSE \E post \in found :
                IF ~canView(post, viewer)
                THEN resp' = R(403, {})
                ELSE resp' = R(200, {post})
    /\ UNCHANGED <<extVars, connVars, settings, contactVars, postVars, storage>>

\* DELETE /api/posts/:postId (verifyToken).  driveOk: audioService.deleteAudio
\* succeeds.
deletePost(caller, postId, driveOk) ==
    LET R(code) == Response("deletePost", caller, postId, code, {})
        found == {post \in posts : post.id = postId /\ post.isActive}
    IN
    IF found = {}
    THEN /\ resp' = R(404)
         /\ UNCHANGED <<extVars, connVars, settings, contactVars, postVars, storage>>
    ELSE \E post \in found :
         IF post.authorId # caller
         THEN /\ resp' = R(403)
              /\ UNCHANGED <<extVars, connVars, settings, contactVars, postVars, storage>>
         ELSE IF ~driveOk
         THEN /\ resp' = R(500)
              /\ UNCHANGED <<extVars, connVars, settings, contactVars, postVars, storage>>
         ELSE /\ posts' = (posts \ {post}) \cup {[post EXCEPT !.isActive = FALSE]}
              /\ postCount' = [postCount EXCEPT ![caller] = @ - 1]
              /\ resp' = R(200)
              /\ UNCHANGED <<extVars, connVars, settings, contactVars, nextPostId, storage>>

\* PUT /api/posts/:postId (verifyToken; the body is not validated, the
\* schema enum is checked on save).  privacy is Undefined when the body has
\* none.
updatePost(caller, postId, privacy) ==
    LET R(code) == Response("updatePost", caller, postId, code, {})
        found == {post \in posts : post.id = postId /\ post.isActive}
    IN
    IF found = {}
    THEN /\ resp' = R(404)
         /\ UNCHANGED <<extVars, connVars, settings, contactVars, postVars, storage>>
    ELSE \E post \in found :
         IF post.authorId # caller
         THEN /\ resp' = R(403)
              /\ UNCHANGED <<extVars, connVars, settings, contactVars, postVars, storage>>
         ELSE IF privacy # Undefined /\ privacy \notin Privacy
         THEN /\ resp' = R(500)
              /\ UNCHANGED <<extVars, connVars, settings, contactVars, postVars, storage>>
         ELSE /\ posts' = (posts \ {post}) \cup
                     {IF privacy = Undefined THEN post
                      ELSE [post EXCEPT !.privacy = privacy]}
              /\ resp' = R(200)
              /\ UNCHANGED <<extVars, connVars, settings, contactVars, nextPostId,
                             postCount, storage>>

\* GET /api/posts/user/:userId (optionalAuth)
getUserPosts(viewer, userId) ==
    LET R(code, data) == Response("getUserPosts", viewer, userId, code, data)
        found == findByUser(userId, viewer)
    IN
    /\ IF userId \notin Users
       THEN resp' = R(404, {})
       ELSE IF found.threw
       THEN resp' = R(500, {})
       ELSE resp' = R(200, found.docs)
    /\ UNCHANGED <<extVars, connVars, settings, contactVars, postVars, storage>>

\* --------------------------------------------------------- Comment model

\* parentCommentId of a top-level comment (the field is absent).
NoComment == 0

\* The deepest level a reply may have.
MaxDepth == 5

\* Comment.findById(id): the documents with that _id (none or one).
FindCommentById(id) == {c \in comments : c.id = id}

\* Faulty variant: the hook sets the depth and never refuses.
DepthWithinLimit_Always(depth) == TRUE

\* The guard of the first pre-save hook: `if (this.depth > 5) return
\* next(new Error(...))`.
DepthWithinLimit(depth) == ~(depth > MaxDepth)

\* commentSchema.pre('save'), first hook, for a new document: with a
\* parentCommentId whose document is found the depth becomes the parent's
\* depth + 1 and the save is refused beyond MaxDepth; otherwise the depth
\* keeps its default 0.
PreSaveDepth(comment) ==
    LET parents == FindCommentById(comment.parentCommentId) IN
    IF comment.parentCommentId # NoComment /\ parents # {}
    THEN LET parentComment == CHOOSE c \in parents : TRUE
             depth == parentComment.depth + 1
         IN [ok |-> DepthWithinLimit(depth),
             doc |-> [comment EXCEPT !.depth = depth]]
    ELSE [ok |-> TRUE, doc |-> comment]

\* ----------------------------------------------------- commentController

\* POST /api/comments/posts/:postId/comments (verifyToken,
\* handleAudioUpload, validateCreateComment).  parentCommentId is NoComment
\* when the body has none.  The response data names the parent asked for.
createComment(caller, postId, parentCommentId, audio) ==
    LET R(code) == Response("createComment", caller, postId, code,
                            {parentCommentId})
        upload == handleAudioUpload(audio)
        found == {post \in posts : post.id = postId /\ post.isActive}
        audioData == processAudio(audio)
        comment == Comment(nextCommentId, postId, caller, parentCommentId,
                           0, audioData.duration, TRUE)
        saved == PreSaveDepth(comment)
    IN
    IF ~upload.next
    THEN /\ resp' = R(upload.status)
         /\ UNCHANGED <<commentVars, notifVars, errVars, limiterVars, routed, inflight, contactOps, connVars, settings, contactVars, postVars, storage>>
    ELSE IF found = {}
    THEN /\ resp' = R(404)
         /\ UNCHANGED <<commentVars, notifVars, errVars, limiterVars, routed, inflight, contactOps, connVars, settings, contactVars, postVars, storage>>
    ELSE IF audioData.threw \/ ~CommentValidators(comment) \/ ~saved.ok
    THEN /\ resp' = R(500)
         /\ UNCHANGED <<commentVars, notifVars, errVars, limiterVars, routed, inflight, contactOps, connVars, settings, contactVars, postVars, storage>>
    ELSE /\ nextCommentId <= MaxComments
         /\ comments' = comments \cup {saved.doc}
         /\ nextCommentId' = nextCommentId + 1
         /\ resp' = R(201)
         /\ UNCHANGED <<notifVars, errVars, limiterVars, routed, inflight, contactOps, connVars, settings, contactVars, postVars, storage>>

\* DELETE /api/comments/:commentId (verifyToken).  driveOk:
\* audioService.deleteAudio succeeds.  The comment is soft-deleted; the
\* pre-save hooks act on new documents only.
deleteComment(caller, commentId, driveOk) ==
    LET R(code) == Response("deleteComment", caller, commentId, code, {})
        found == {c \in FindCommentById(commentId) : c.isActive}
    IN
    IF found = {}
    THEN /\ resp' = R(404)
         /\ UNCHANGED <<commentVars, notifVars, errVars, limiterVars, routed, inflight, contactOps, connVars, settings, contactVars, postVars, storage>>
    ELSE \E comment \in found :
         IF comment.authorId # caller
         THEN /\ resp' = R(403)
              /\ UNCHANGED <<commentVars, notifVars, errVars, limiterVars, routed, inflight, contactOps, connVars, settings, contactVars, postVars, storage>>
         ELSE IF ~driveOk
         THEN /\ resp' = R(500)
              /\ UNCHANGED <<commentVars, notifVars, errVars, limiterVars, routed, inflight, contactOps, connVars, settings, contactVars, postVars, storage>>
         ELSE /\ comments' = (comments \ {comment})
                                 \cup {[comment EXCEPT !.isActive = FALSE]}
              /\ resp' = R(200)
              /\ UNCHANGED <<nextCommentId, notifVars, errVars, limiterVars, routed, inflight, contactOps, connVars, settings,
                             contactVars, postVars, storage>>

\* ---------------------------------------------------- notificationService

\* The state of the request handlers.
handlerVars == <<connVars, settings, contactVars, postVars, storage,
                 commentVars, errVars, limiterVars, routed, inflight, contactOps, resp>>

\* A notification object (sendNotification, lines 19-26).
Notification(id, userId, type) == [id |-> id, userId |-> userId, type |-> type]

\* Faulty variant: the queue gives up its newest element.
Shift_Last(queue) ==
    [notification |-> queue[Len(queue)], rest |-> SubSeq(queue, 1, Len(queue) - 1)]

\* Array.prototype.shift on a non-empty queue: the first element and the
\* remaining queue.
Shift(queue) == [notification |-> Head(queue), rest |-> Tail(queue)]

\* Faulty variant: a failed delivery escapes processNotification.
Caught_Rethrown(outcome) == outcome # "failed"

\* processNotification wraps its whole body in try/catch: no outcome
\* escapes as an exception.
Caught(outcome) == TRUE

\* shouldSendNotification and the delivery: "skipped" when the preferences
\* of the user switch the type off, "failed" when the delivery throws,
\* otherwise "sent".
Outcome(allowed, delivered) ==
    IF ~allowed THEN "skipped" ELSE IF ~delivered THEN "failed" ELSE "sent"

\* One iteration of the while loop of processQueue up to the first await
\* inside processNotification: the loop ends and `finally` clears the flag
\* when the queue is empty, otherwise the next notification is shifted and
\* processNotification is started for it.
DrainFrom(queue) ==
    IF Len(queue) = 0
    THEN /\ notificationQueue' = queue
         /\ isProcessing' = FALSE
         /\ drain' = "idle"
         /\ processing' = <<>>
         /\ started' = started
    ELSE /\ notificationQueue' = Shift(queue).rest
         /\ isProcessing' = TRUE
         /\ drain' = "processing"
         /\ processing' = <<Shift(queue).notification>>
         /\ started' = Append(started, Shift(queue).notification.id)

\* sendNotification(userId, type, ...): push, then processQueue() unless a
\* drain is in progress.  The call has no await, so it is one step.
sendNotification(userId, type) ==
    LET notification == Notification(nextNotificationId, userId, type)
        queue == Append(notificationQueue, notification)
    IN
    /\ nextNotificationId <= MaxNotifications
    /\ nextNotificationId' = nextNotificationId + 1
    /\ enqueued' = Append(enqueued, notification.id)
    /\ IF ~isProcessing
       THEN DrainFrom(queue)
       ELSE /\ notificationQueue' = queue
            /\ UNCHANGED <<isProcessing, drain, processing, started>>
    /\ UNCHANGED <<processed, handlerVars>>

\* processNotification comes to its end for the notification in hand;
\* allowed and delivered are what the preferences lookup and the delivery
\* yield.  An outcome that escaped would end the loop of processQueue
\* through its catch and finally.
processNotification(allowed, delivered) ==
    LET outcome == Outcome(allowed, delivered) IN
    /\ drain = "processing"
    /\ processed' = Append(processed, [id |-> processing[1].id, status |-> outcome])
    /\ processing' = <<>>
    /\ IF Caught(outcome)
       THEN /\ drain' = "resuming"
            /\ UNCHANGED isProcessing
       ELSE /\ drain' = "idle"
            /\ isProcessing' = FALSE
    /\ UNCHANGED <<notificationQueue, nextNotificationId, enqueued, started,
                   handlerVars>>

\* processQueue resumes after `await this.processNotification(...)`: the
\* loop condition is tested again.
processQueue ==
    /\ drain = "resuming"
    /\ DrainFrom(notificationQueue)
    /\ UNCHANGED <<nextNotificationId, enqueued, processed, handlerVars>>

\* --------------------------------------------------------- errorMiddleware

\* The messages the scenarios use: none, one without and one with the words
\* 'Google Drive'.
Messages == {"", "failed", "failed for value Google Drive"}

\* err.message.includes('Google Drive')
IncludesGoogleDrive(message) == message = "failed for value Google Drive"

\* The message the switch over err.code picks for a MulterError.
MulterMessage(code) ==
    CASE code = "LIMIT_FILE_SIZE" -> "File size exceeds limit"
      [] code = "LIMIT_FILE_COUNT" -> "Too many files uploaded"
      [] code = "LIMIT_UNEXPECTED_FILE" -> "Unexpected file field"
      [] code = "LIMIT_FIELD_KEY" -> "Field name too long"
      [] code = "LIMIT_FIELD_VALUE" -> "Field value too long"
      [] code = "LIMIT_FIELD_COUNT" -> "Too many form fields"
      [] code = "LIMIT_PART_COUNT" -> "Too many parts"
      [] OTHER -> "File upload error"

\* The replacement `error = { message, statusCode }` of one branch.
Mapped(message, statusCode) ==
    [message |-> message, statusCode |-> statusCode, details |-> FALSE]

\* The `error` object errorHandler builds: one `if` after the other, each
\* that matches replacing what the earlier ones built (the tests are not
\* chained with else).
ErrorOf(e) ==
    LET copy == Mapped(e.message, e.statusCode)
        cast == IF e.name = "CastError"
                THEN Mapped("Resource not found", 404) ELSE copy
        duplicate == IF e.code = "11000"
                     THEN Mapped("Field already exists", 400) ELSE cast
        validation == IF e.name = "ValidationError"
                      THEN Mapped("validator messages", 400) ELSE duplicate
        jwt == IF e.name = "JsonWebTokenError"
               THEN Mapped("Invalid token", 401) ELSE validation
        expired == IF e.name = "TokenExpiredError"
                   THEN Mapped("Token expired", 401) ELSE jwt
        multer == IF e.name = "MulterError"
                  THEN Mapped(MulterMessage(e.code), 400) ELSE expired
        google == IF e.message # "" /\ IncludesGoogleDrive(e.message)
                  THEN [message |-> "Google Drive service error",
                        statusCode |-> 503, details |-> TRUE]
                  ELSE multer
        network == IF e.code = "ECONNREFUSED" \/ e.code = "ENOTFOUND"
                   THEN Mapped("Service unavailable", 503) ELSE google
        database == IF e.name = "MongoNetworkError" \/ e.name = "MongoTimeoutError"
                    THEN Mapped("Database connection error", 503) ELSE network
    IN database

\* errorHandler(err, req, res, next): the status is error.statusCode || 500,
\* the message error.message || 'Server Error', and the body has
\* success: false; development is process.env.NODE_ENV === 'development',
\* which adds the stack to the body.
errorHandler(e, development) ==
    LET error == ErrorOf(e)
        statusCode == IF error.statusCode # 0 THEN error.statusCode ELSE 500
        message == IF error.message # "" THEN error.message ELSE "Server Error"
    IN
    /\ err' = e
    /\ res' = [statusCode |-> statusCode, success |-> FALSE,
               message |-> message, stack |-> development,
               details |-> error.details]
    /\ UNCHANGED <<connVars, settings, contactVars, postVars, storage,
                   commentVars, notifVars, limiterVars, routed, inflight, contactOps, resp>>

\* ------------------------------------------------------ rateLimitMiddleware

\* config.RATE_LIMIT_MAX_REQUESTS
RATE_LIMIT_MAX_REQUESTS == 100

\* One run of generalLimiter for a client whose count in the window is
\* count: the store counts the hit, and the request is refused when the new
\* count exceeds max.
rateLimit(count) ==
    [count |-> count + 1, blocked |-> count + 1 > RATE_LIMIT_MAX_REQUESTS]

\* A request from ip.  Every request runs through app.use(generalLimiter);
\* a request to a guarded route (one that lists generalLimiter in its own
\* chain, such as GET /api/users/me) runs through the same limiter, and so
\* the same store, a second time, after verifyToken has let it pass
\* (authenticated).  The status is 429 from the limiter, 401 from
\* verifyToken, otherwise 200 for whatever the handler answers.
request(ip, guarded, authenticated) ==
    LET first == rateLimit(hits[ip])
        second == rateLimit(first.count)
        R(count, status) ==
            /\ hits' = [hits EXCEPT ![ip] = count]
            /\ limited' = [ip |-> ip, guarded |-> guarded,
                           ordinal |-> requests[ip] + 1, status |-> status]
    IN
    /\ requests[ip] < MaxRequests
    /\ requests' = [requests EXCEPT ![ip] = @ + 1]
    /\ IF first.blocked THEN R(first.count, 429)
       ELSE IF ~guarded THEN R(first.count, 200)
       ELSE IF ~authenticated THEN R(first.count, 401)
       ELSE IF second.blocked THEN R(second.count, 429)
       ELSE R(second.count, 200)
    /\ UNCHANGED <<connVars, settings, contactVars, postVars, storage,
                   commentVars, notifVars, errVars, routed, inflight, contactOps, resp>>

\* The window of windowMs ends: the store forgets every count.
resetWindow ==
    /\ hits' = [ip \in IPs |-> 0]
    /\ requests' = [ip \in IPs |-> 0]
    /\ UNCHANGED <<limited, connVars, settings, contactVars, postVars, storage,
                   commentVars, notifVars, errVars, routed, inflight, contactOps, resp>>

\* ------------------------------------------------------------------ routes

\* A route as router.METHOD(path, ..., handler) registers it; the path is
\* the sequence of its segments.
Route(method, path, handler) == [method |-> method, path |-> path, handler |-> handler]

\* The segments that are route parameters.
Params == {":userId", ":postId", ":commentId"}

\* routes/users.js, the router mounted at /api/users, in registration order.
UserRoutes ==
    << Route("GET", <<"me">>, "getCurrentUser"),
       Route("PUT", <<"me">>, "updateProfile"),
       Route("GET", <<":userId">>, "getUserProfile"),
       Route("GET", <<"search">>, "searchUsers"),
       Route("GET", <<"me", "connections">>, "getUserConnections"),
       Route("GET", <<"me", "stats">>, "getUserStats"),
       Route("GET", <<"me", "storage">>, "getStorageInfo"),
       Route("PUT", <<"me", "storage", "preference">>, "updateStoragePreference"),
       Route("POST", <<"me", "avatar">>, "uploadAvatar"),
       Route("DELETE", <<"me", "avatar">>, "deleteAvatar") >>

\* routes/posts.js, the router mounted at /api/posts, in registration order.
PostRoutes ==
    << Route("GET", <<"feed">>, "getUserFeed"),
       Route("POST", <<>>, "createPost"),
       Route("GET", <<":postId">>, "getPost"),
       Route("DELETE", <<":postId">>, "deletePost"),
       Route("GET", <<"user", ":userId">>, "getUserPosts"),
       Route("POST", <<":postId", "like">>, "toggleLike"),
       Route("GET", <<":postId", "likes">>, "getPostLikes"),
       Route("PUT", <<":postId">>, "updatePost"),
       Route("GET", <<"trending">>, "getTrendingPosts"),
       Route("GET", <<"explore">>, "getExplorePosts"),
       Route("POST", <<":postId", "listen">>, "recordListen"),
       Route("GET", <<":postId", "stats">>, "getPostStats") >>

\* routes/comments.js, the router mounted at /api/comments, in registration
\* order.
CommentRoutes ==
    << Route("GET", <<"posts", ":postId", "comments">>, "getPostComments"),
       Route("POST", <<"posts", ":postId", "comments">>, "createComment"),
       Route("DELETE", <<":commentId">>, "deleteComment"),
       Route("GET", <<":commentId", "replies">>, "getCommentReplies"),
       Route("POST", <<":commentId", "like">>, "toggleCommentLike"),
       Route("GET", <<":commentId", "likes">>, "getCommentLikes"),
       Route("PUT", <<":commentId">>, "updateComment"),
       Route("GET", <<"user", ":userId">>, "getUserComments") >>

Routers == [users |-> UserRoutes, posts |-> PostRoutes, comments |-> CommentRoutes]

\* A segment of a route path matches a segment of the request path when it
\* is a parameter or the same text.
SegmentMatches(pattern, segment) == pattern \in Params \/ pattern = segment

\* The route matches the request: same method, and the paths match segment
\* by segment.
Matches(route, method, path) ==
    /\ route.method = method
    /\ Len(route.path) = Len(path)
    /\ \A i \in 1..Len(path) : SegmentMatches(route.path[i], path[i])

\* First-match routing: the handler of the first registered route that
\* matches; every handler chain ends the request, none calls next() on to a
\* later route.  "notFound" when no route matches.
Dispatch(routes, method, path) ==
    LET matching == {i \in 1..Len(routes) : Matches(routes[i], method, path)} IN
    IF matching = {} THEN "notFound"
    ELSE routes[CHOOSE i \in matching : \A j \in matching : i <= j].handler

\* A request arrives at a router.
dispatch(router, method, path) ==
    /\ routed' = [router |-> router, method |-> method, path |-> path,
                  handler |-> Dispatch(Routers[router], method, path)]
    /\ UNCHANGED <<connVars, settings, contactVars, postVars, storage,
                   commentVars, notifVars, errVars, limiterVars, inflight, contactOps,
                   resp>>

\* -------------------------------------------------------- authController

\* The authorization codes a request may carry and the tokens Google
\* exchanges them for; any other code makes the exchange fail.
TokenOf == [codeA |-> "tokenA", codeB |-> "tokenB"]

\* config/cloudStorage.js getAccessToken(code): the tokens of a code Google
\* accepts, an Error otherwise.
getAccessToken(code) ==
    IF code \in DOMAIN TokenOf
    THEN [threw |-> FALSE, tokens |-> TokenOf[code]]
    ELSE [threw |-> TRUE, tokens |-> Undefined]

\* POST /api/auth/google-drive.  The route has no verifyToken, so req.user is
\* undefined whatever the Authorization header (bearer) holds, and reading
\* req.user._id throws inside the try: the handler answers 500 before it
\* looks at the code.
connectGoogleDrive(bearer, code) ==
    /\ resp' = Response("connectGoogleDrive", bearer, NoUser, 500, {})
    /\ UNCHANGED <<extVars, connVars, settings, contactVars, postVars, storage>>

\* GET /api/auth/google/callback?code=&state=.  The route has no
\* verifyToken; bearer is the identity of the Authorization header, which
\* the handler never reads.  state is Undefined when the query has none.
handleGoogleCallback(bearer, code, state) ==
    LET R(status, data) ==
            Response("handleGoogleCallback", bearer, state, status, data)
        exchange == getAccessToken(code)
    IN
    IF code = Undefined
    THEN /\ resp' = R(400, {})
         /\ UNCHANGED <<extVars, connVars, settings, contactVars, postVars, storage>>
    ELSE IF exchange.threw
    THEN /\ resp' = R(302, {"error"})
         /\ UNCHANGED <<extVars, connVars, settings, contactVars, postVars, storage>>
    ELSE IF state # Undefined /\ state \in Users
    THEN /\ storage' = [storage EXCEPT ![state] = exchange.tokens]
         /\ resp' = R(302, {"success"})
         /\ UNCHANGED <<extVars, connVars, settings, contactVars, postVars>>
    ELSE /\ resp' = R(200, {exchange.tokens})
         /\ UNCHANGED <<extVars, connVars, settings, contactVars, postVars, storage>>

\* ------------------------------------------------------- specification

\* The bodies of PUT /api/users/me that the scenarios send.
SettingsUpdates == {[autoAcceptConnections |-> b] : b \in BOOLEAN}
ContactUpdates == {[privateContact |-> "contact"]}

\* Connection workflow between two users (and towards an unknown id).
ConnectionsNext ==
    \/ \E caller \in Pair, userId \in Pair \cup {NoUser} :
           sendConnectionRequest(caller, userId)
    \/ \E caller \in Pair, requestId \in connections, status \in {"accepted", "rejected"} :
           respondToRequest(caller, requestId, status)
    \/ \E caller \in Pair, userId \in Pair \cup {NoUser} : removeConnection(caller, userId)
    \/ \E caller \in Pair, userId \in Pair \cup {NoUser} : blockUser(caller, userId)
    \/ \E caller \in Pair, userId \in Pair \cup {NoUser} : unblockUser(caller, userId)
    \/ \E caller \in Pair, updates \in SettingsUpdates : updateProfile(caller, updates)

SpecConnections == Init /\ [][ConnectionsNext]_vars

\* Contact reveal between two users whose connection comes and goes.
\* The state the stepwise contact reveal handlers leave alone.
contactFrame == <<commentVars, notifVars, errVars, limiterVars, routed,
                  inflight, connVars, settings, privateContact, postVars,
                  storage>>

\* A handler between two awaits: the document it loaded with findById, the
\* status of the request body and the await it has reached.
ContactOp(op, caller, contactReveal, status, pc) ==
    [op |-> op, caller |-> caller, contactReveal |-> contactReveal,
     status |-> status, pc |-> pc]

\* respondToContactRequest up to the canRespond check: ContactReveal.findById
\* has returned.  A request that passes holds the loaded document.
respondToContactRequestFind(caller, requestId, status) ==
    LET R(code) == Response("respondToContactRequest", caller, requestId, code, {status})
    IN
    /\ ~\E o \in contactOps : o.caller = caller
    /\ IF requestId \notin reveals
       THEN /\ resp' = R(404)
            /\ UNCHANGED contactOps
       ELSE IF ~revealCanRespond(requestId, caller)
       THEN /\ resp' = R(403)
            /\ UNCHANGED contactOps
       ELSE /\ contactOps' = contactOps \cup
                  {ContactOp("respondToContactRequest", caller, requestId,
                             status, "loaded")}
            /\ UNCHANGED resp
    /\ UNCHANGED <<contactFrame, contactRevealed, reveals>>

\* contactRevealSchema.methods.accept up to `return this.save()`:
\* User.findByIdAndUpdate has set the recipient's profile.contactRevealed.
acceptUpdateUser(o) ==
    /\ o \in contactOps
    /\ o.op = "respondToContactRequest" /\ o.status = "accepted" /\ o.pc = "loaded"
    /\ contactRevealed' = [contactRevealed EXCEPT ![o.contactReveal.recipientId] = TRUE]
    /\ contactOps' = (contactOps \ {o}) \cup {[o EXCEPT !.pc = "updated"]}
    /\ UNCHANGED <<contactFrame, reveals, resp>>

\* this.save() of a loaded document is an update by _id: it finds the
\* document only while it is stored, and fails (DocumentNotFoundError)
\* once it was deleted.
SaveFinds(r) == r \in reveals

\* this.save() in accept and reject, and the response of
\* respondToContactRequest: 200 when the save succeeded, 500 from the catch
\* block when it threw.
respondToContactRequestSave(o) ==
    LET r == o.contactReveal
        R(code) == Response("respondToContactRequest", o.caller, r, code, {o.status})
    IN
    /\ o \in contactOps
    /\ o.op = "respondToContactRequest"
    /\ o.pc = (IF o.status = "accepted" THEN "updated" ELSE "loaded")
    /\ contactOps' = contactOps \ {o}
    /\ IF SaveFinds(r)
       THEN /\ reveals' = (reveals \ {r}) \cup {[r EXCEPT !.status = o.status]}
            /\ resp' = R(200)
       ELSE /\ resp' = R(500)
            /\ UNCHANGED reveals
    /\ UNCHANGED <<contactFrame, contactRevealed>>

\* cancelContactRequest up to the ownership check: ContactReveal.findById has
\* returned.
cancelContactRequestFind(caller, requestId) ==
    LET R(code) == Response("cancelContactRequest", caller, requestId, code, {})
    IN
    /\ ~\E o \in contactOps : o.caller = caller
    /\ IF requestId \notin reveals
       THEN /\ resp' = R(404)
            /\ UNCHANGED contactOps
       ELSE IF requestId.requesterId # caller \/ requestId.status # "pending"
       THEN /\ resp' = R(403)
            /\ UNCHANGED contactOps
       ELSE /\ contactOps' = contactOps \cup
                  {ContactOp("cancelContactRequest", caller, requestId,
                             "pending", "loaded")}
            /\ UNCHANGED resp
    /\ UNCHANGED <<contactFrame, contactRevealed, reveals>>

\* ContactReveal.findByIdAndDelete(requestId) and the response of
\* cancelContactRequest: the document is deleted by _id, with the status it
\* has by now (the one pending or accepted document of its two users).
cancelContactRequestDelete(o) ==
    LET r == o.contactReveal
        R(code) == Response("cancelContactRequest", o.caller, r, code, {})
    IN
    /\ o \in contactOps
    /\ o.op = "cancelContactRequest"
    /\ contactOps' = contactOps \ {o}
    /\ reveals' = {d \in reveals :
                      ~(/\ d.requesterId = r.requesterId
                        /\ d.recipientId = r.recipientId
                        /\ d.status \in {"pending", "accepted"})}
    /\ resp' = R(200)
    /\ UNCHANGED <<contactFrame, contactRevealed>>

ContactNext ==
    \/ \E caller \in Pair, userId \in Pair : sendConnectionRequest(caller, userId)
    \/ \E caller \in Pair, requestId \in connections, status \in {"accepted", "rejected"} :
           respondToRequest(caller, requestId, status)
    \/ \E caller \in Pair, userId \in Pair : removeConnection(caller, userId)
    \/ \E caller \in Pair, userId \in Pair : blockUser(caller, userId)
    \/ \E caller \in Pair, userId \in Pair : unblockUser(caller, userId)
    \/ \E caller \in Pair, userId \in Pair \cup {NoUser} :
           requestContactReveal(caller, userId)
    \/ \E caller \in Pair, requestId \in reveals, status \in {"accepted", "rejected"} :
           respondToContactRequest(caller, requestId, status)
    \/ \E caller \in Pair, requestId \in reveals : cancelContactRequest(caller, requestId)
    \/ \E caller \in Pair : getRevealedContacts(caller)
    \/ \E caller \in Pair, updates \in ContactUpdates : updateProfile(caller, updates)

SpecContact == Init /\ [][ContactNext]_vars

\* The profile of one user (Owner) as two other users and an anonymous
\* client see it, while their connections and reveal requests with the
\* owner change.
Owner == "u1"
Viewers == Users \ {Owner}

ProfileNext ==
    \/ \E caller \in Viewers : sendConnectionRequest(caller, Owner)
    \/ \E caller \in Users, requestId \in connections, status \in {"accepted", "rejected"} :
           respondToRequest(caller, requestId, status)
    \/ \E caller \in Viewers : removeConnection(caller, Owner)
    \/ \E caller \in Viewers : requestContactReveal(caller, Owner)
    \/ \E caller \in Users, requestId \in reveals, status \in {"accepted", "rejected"} :
           respondToContactRequest(caller, requestId, status)
    \/ \E updates \in ContactUpdates : updateProfile(Owner, updates)
    \/ \E currentUserId \in Users \cup {Anon}, userId \in {Owner, NoUser} :
           getUserProfile(currentUserId, userId)

SpecProfile == Init /\ [][ProfileNext]_vars

\* The Google Drive OAuth requests, with and without credentials.
Codes == {Undefined, "expired", "codeA", "codeB"}
AuthNext ==
    \/ \E bearer \in Users \cup {Anon}, code \in Codes :
           connectGoogleDrive(bearer, code)
    \/ \E bearer \in Users \cup {Anon}, code \in Codes,
          state \in Users \cup {NoUser, Undefined} :
           handleGoogleCallback(bearer, code, state)

SpecAuth == Init /\ [][AuthNext]_vars

\* Posts of one author as the author, another user and an anonymous client
\* read them, while the two users' connection comes and goes.
PostIds == 1..MaxPosts

\* A measured duration every validator accepts, in tenths of a second.
ShortClip == 300

PostsNext ==
    \/ \E file \in {"missing", "failed", "ok"}, privacy \in Privacy \cup {Undefined} :
           createPost(Owner, Audio(file, ShortClip), privacy)
    \/ \E caller \in Pair, postId \in PostIds, driveOk \in BOOLEAN :
           deletePost(caller, postId, driveOk)
    \/ \E caller \in Pair, postId \in PostIds, privacy \in Privacy \cup {Undefined, "friends"} :
           updatePost(caller, postId, privacy)
    \/ \E viewer \in Pair \cup {Anon}, postId \in PostIds : getPost(viewer, postId)
    \/ \E viewer \in Pair \cup {Anon}, userId \in {Owner, NoUser} :
           getUserPosts(viewer, userId)
    \/ \E caller \in Pair, userId \in Pair : sendConnectionRequest(caller, userId)
    \/ \E caller \in Pair, requestId \in connections, status \in {"accepted", "rejected"} :
           respondToRequest(caller, requestId, status)
    \/ \E caller \in Pair, userId \in Pair : removeConnection(caller, userId)

SpecPosts == Init /\ [][PostsNext]_vars

\* An id no Comment document ever gets.
DanglingCommentId == MaxComments + 1

\* Comment threads on the first post: replies to the first comment, to the
\* latest comment, to an id without a document, and top-level comments.
CommentsNext ==
    \/ createPost(Owner, Audio("ok", ShortClip), Undefined)
    \/ \E parentCommentId \in {NoComment, DanglingCommentId}
              \cup {id \in {1, nextCommentId - 1} : FindCommentById(id) # {}} :
           createComment(Owner, 1, parentCommentId, Audio("ok", ShortClip))
    \/ \E caller \in Pair, driveOk \in BOOLEAN : deleteComment(caller, 1, driveOk)

SpecComments == Init /\ [][CommentsNext]_vars

\* The measured durations (tenths of a second) the media scenarios upload:
\* around the lower limit of posts, the limit of comments and
\* MAX_AUDIO_DURATION.
PostDurations == {4, 5, 6000, 6001}
CommentDurations == {1204, 1205, 6000, 6001}

\* Posts and top-level comments with audio of every duration.
MediaNext ==
    \/ \E file \in {"missing", "failed", "ok"}, duration \in PostDurations :
           createPost(Owner, Audio(file, duration), Undefined)
    \/ \E file \in {"missing", "failed", "ok"}, duration \in CommentDurations :
           createComment(Owner, 1, NoComment, Audio(file, duration))

SpecMedia == Init /\ [][MediaNext]_vars

\* The notification types the scenarios send; "digest" is a type
\* processNotification does not know.
NotificationTypes == {"connection_request", "post_comment", "digest"}

\* Handlers enqueue notifications while the service drains its queue.
NotificationsNext ==
    \/ \E userId \in Pair, type \in NotificationTypes : sendNotification(userId, type)
    \/ \E allowed \in BOOLEAN, delivered \in BOOLEAN :
           processNotification(allowed, delivered)
    \/ processQueue

\* Every await of the drain comes back: the drain steps are weakly fair.
SpecNotifications ==
    /\ Init
    /\ [][NotificationsNext]_vars
    /\ WF_vars(\E allowed \in BOOLEAN, delivered \in BOOLEAN :
                   processNotification(allowed, delivered))
    /\ WF_vars(processQueue)

\* The errors that reach the error middleware.  Mongoose cast and
\* validation errors and duplicate-key errors quote the offending value in
\* their message, so the message may hold any text; the messages of JWT,
\* Multer and Mongo connection errors are fixed.
ErrorNames == {"CastError", "ValidationError", "JsonWebTokenError",
               "TokenExpiredError", "MulterError", "MongoServerError",
               "MongoNetworkError", "MongoTimeoutError", "Error"}
MulterCodes == {"LIMIT_FILE_SIZE", "LIMIT_FILE_COUNT", "LIMIT_UNEXPECTED_FILE",
                "LIMIT_FIELD_KEY", "LIMIT_FIELD_VALUE", "LIMIT_FIELD_COUNT",
                "LIMIT_PART_COUNT", "MISSING_FIELD_NAME"}
ErrorCodes == {"none", "11000", "ECONNREFUSED", "ENOTFOUND"} \cup MulterCodes
OwnStatusCodes == {0, 400, 401, 403, 404, 409, 410, 418, 422, 429}
Errors ==
    {e \in {Err(name, code, message, statusCode) :
                name \in ErrorNames, code \in ErrorCodes,
                message \in Messages, statusCode \in OwnStatusCodes} :
        /\ e.code = "11000" <=> e.name = "MongoServerError"
        /\ e.code \in MulterCodes <=> e.name = "MulterError"
        /\ e.code \in {"ECONNREFUSED", "ENOTFOUND"} => e.name = "Error"
        /\ e.message = "" => e.name = "Error"
        /\ IncludesGoogleDrive(e.message)
               => e.name \in {"CastError", "ValidationError",
                              "MongoServerError", "Error"}
        /\ e.statusCode # 0 => (e.name = "Error" /\ e.code = "none")}

ErrorsNext ==
    \E e \in Errors, development \in BOOLEAN : errorHandler(e, development)

SpecErrors == Init /\ [][ErrorsNext]_vars

\* One client sends authenticated requests to guarded routes, another sends
\* a few requests of every kind; windows end.
LimiterNext ==
    \/ request("ip1", TRUE, TRUE)
    \/ \E guarded \in BOOLEAN, authenticated \in BOOLEAN :
           /\ requests["ip2"] < 2
           /\ request("ip2", guarded, authenticated)
    \/ resetWindow

SpecLimiter == Init /\ [][LimiterNext]_vars

\* The URL of a documented endpoint: its route path with an id in the place
\* of each parameter.
UrlOf(path) == [i \in 1..Len(path) |-> IF path[i] \in Params THEN "id1" ELSE path[i]]

\* The URLs of the endpoints a router documents.
UrlsOf(routes) == {UrlOf(routes[i].path) : i \in 1..Len(routes)}

\* The methods the CORS configuration of the app lets through.
Methods == {"GET", "POST", "PUT", "DELETE", "PATCH"}

\* Requests of every method to every documented URL of the three routers.
RoutingNext ==
    \E router \in DOMAIN Routers, method \in Methods :
        \E path \in UrlsOf(Routers[router]) : dispatch(router, method, path)

SpecRouting == Init /\ [][RoutingNext]_vars

\* Connection requests of two users handled concurrently: the check of one
\* may run between the check and the save of the other.
RacesNext ==
    \/ \E caller \in Pair, userId \in Pair \cup {NoUser} :
           sendConnectionRequestCheck(caller, userId)
    \/ \E r \in inflight : sendConnectionRequestSave(r)
    \/ \E caller \in Pair, requestId \in connections, status \in {"accepted", "rejected"} :
           /\ inflight = {}
           /\ respondToRequest(caller, requestId, status)
    \/ \E caller \in Pair, userId \in Pair :
           /\ inflight = {}
           /\ removeConnection(caller, userId)
    \/ \E caller \in Pair, updates \in SettingsUpdates :
           /\ inflight = {}
           /\ updateProfile(caller, updates)

SpecRaces == Init /\ [][RacesNext]_vars

\* Contact reveal requests of two connected users, each handler advancing
\* one await at a time: a cancellation may run between the steps of an
\* answer.  New requests are made while no handler is under way.
ContactRacesNext ==
    \/ \E caller \in Pair, userId \in Pair : sendConnectionRequest(caller, userId)
    \/ \E caller \in Pair, requestId \in connections, status \in {"accepted", "rejected"} :
           respondToRequest(caller, requestId, status)
    \/ \E caller \in Pair, userId \in Pair :
           /\ contactOps = {}
           /\ requestContactReveal(caller, userId)
    \/ \E caller \in Pair, requestId \in reveals, status \in {"accepted", "rejected"} :
           respondToContactRequestFind(caller, requestId, status)
    \/ \E o \in contactOps : acceptUpdateUser(o)
    \/ \E o \in contactOps : respondToContactRequestSave(o)
    \/ \E caller \in Pair, requestId \in reveals :
           cancelContactRequestFind(caller, requestId)
    \/ \E o \in contactOps : cancelContactRequestDelete(o)

SpecContactRaces == Init /\ [][ContactRacesNext]_vars

\* ---------------------------------------------------------- properties

\* A Connection document between a and b exists, in either direction.
RecordBetween(a, b) ==
    \E c \in connections :
        \/ (c.requesterId = a /\ c.recipientId = b)
        \/ (c.requesterId = b /\ c.recipientId = a)

\* C1: a connection request between two users who already have a Connection
\* document, in either direction and in any status, is answered 400 and
\* changes no document and no counter.
C1_ExistingConnectionRejected ==
    [][(resp'.op = "sendConnectionRequest"
         /\ RecordBetween(resp'.caller, resp'.target))
        => (resp'.code = 400 /\ UNCHANGED <<extVars, connections, stats, settings>>)]_vars

\* C1 witness: the same request sent a second time while the first is
\* pending has been answered 400.
C1_Witness ==
    /\ resp.op = "sendConnectionRequest"
    /\ resp.code = 400
    /\ resp.data = {"pending"}
    /\ \E c \in connections :
           c.requesterId = resp.caller /\ c.recipientId = resp.target

\* C2: a connection becomes accepted only by its recipient accepting it
\* while it is pending, or by a request sent to a recipient whose
\* autoAcceptConnections is on.
C2_AcceptedOnlyByRecipient ==
    [][\A c \in connections' :
          (c.status = "accepted"
            /\ ~\E d \in connections :
                   d.status = "accepted" /\ d.requesterId = c.requesterId
                   /\ d.recipientId = c.recipientId)
          => \/ /\ resp'.op = "respondToRequest"
                /\ resp'.caller = c.recipientId
                /\ resp'.data = {"accepted"}
                /\ \E d \in connections :
                       d.status = "pending" /\ d.requesterId = c.requesterId
                       /\ d.recipientId = c.recipientId
             \/ /\ resp'.op = "sendConnectionRequest"
                /\ resp'.caller = c.requesterId
                /\ resp'.target = c.recipientId
                /\ settings[c.recipientId]]_vars

\* C2 witness: a recipient whose autoAcceptConnections is off has accepted a
\* pending request.
C2_Witness ==
    /\ resp.op = "respondToRequest"
    /\ resp.code = 200
    /\ resp.data = {"accepted"}
    /\ resp.target.status = "pending"
    /\ ~settings[resp.caller]
    /\ \E c \in connections :
           c.status = "accepted" /\ c.recipientId = resp.caller
           /\ c.requesterId = resp.target.requesterId

\* a and b have an accepted Connection, in either direction.
Connected(a, b) ==
    \E c \in connections :
        /\ c.status = "accepted"
        /\ \/ (c.requesterId = a /\ c.recipientId = b)
           \/ (c.requesterId = b /\ c.recipientId = a)

\* An accepted ContactReveal exists between a and b, in either direction.
RevealAcceptedBetween(a, b) ==
    \E r \in reveals :
        /\ r.status = "accepted"
        /\ \/ (r.requesterId = a /\ r.recipientId = b)
           \/ (r.requesterId = b /\ r.recipientId = a)

\* C3: requestContactReveal stores a ContactReveal only when requester and
\* target have an accepted Connection at that moment; between users who are
\* not connected it answers 400 and stores nothing.
C3_RevealRequestNeedsConnection ==
    [][resp'.op = "requestContactReveal"
        => /\ reveals' # reveals => Connected(resp'.caller, resp'.target)
           /\ (resp'.target \in Users /\ ~Connected(resp'.caller, resp'.target))
                  => (resp'.code = 400 /\ reveals' = reveals)]_vars

\* C3 witness: a reveal request between two users whose connection is still
\* pending has been answered 400.
C3_Witness ==
    /\ resp.op = "requestContactReveal"
    /\ resp.code = 400
    /\ resp.data = {"not connected"}
    /\ \E c \in connections :
           c.status = "pending" /\ c.requesterId = resp.caller
           /\ c.recipientId = resp.target

C5_RevealedContactsOnlyWhileConnected ==
    resp.op = "getRevealedContacts"
        => \A e \in resp.data : Connected(resp.caller, e.id)

\* C6: getRevealedContacts returns the privateContact only of users who have
\* themselves accepted a contact reveal request.
C6_ContactOnlyOfAccepter ==
    resp.op = "getRevealedContacts"
        => \A e \in resp.data :
               \E r \in reveals : r.status = "accepted" /\ r.recipientId = e.id

\* C7: a connections_only post is returned by getPost to its author and to
\* users with an accepted Connection to the author; any other viewer, an
\* anonymous one included, is answered 403.
C7_ConnectionsOnlyPostGated ==
    resp.op = "getPost"
        => \A post \in posts :
               (post.id = resp.target /\ post.isActive
                 /\ post.privacy = "connections_only")
               => IF resp.caller = post.authorId
                     \/ Connected(resp.caller, post.authorId)
                  THEN resp.code = 200 /\ resp.data = {post}
                  ELSE resp.code = 403 /\ resp.data = {}

\* C8: getUserPosts returns a user's non-public posts to that user only; any
\* other viewer, an anonymous one included, receives public posts only.
C8_UserPostsNonPublicOnlyToAuthor ==
    resp.op = "getUserPosts"
        => \A post \in resp.data :
               post.privacy # "public" => resp.caller = post.authorId

\* C9: a user's stored Google Drive token changes only in a request that
\* carries the bearer token of that same user; an unauthenticated request or
\* another user's request never overwrites it.
C9_DriveTokenOnlyByOwner ==
    [][\A u \in Users : storage'[u] # storage[u] => resp'.caller = u]_vars

\* C11: comment nesting never exceeds 5: every stored comment has depth at
\* most 5, a top-level comment has depth 0, a comment whose parent document
\* exists has the parent's depth + 1, and a reply to a depth-5 comment is
\* refused and not stored.
C11_CommentDepthLimited ==
    /\ \A c \in comments :
           /\ c.depth \in 0..5
           /\ c.parentCommentId = 0 => c.depth = 0
           /\ \A parent \in comments :
                  parent.id = c.parentCommentId => c.depth = parent.depth + 1
    /\ (resp.op = "createComment"
         /\ \E parent \in comments : parent.id \in resp.data /\ parent.depth = 5)
       => (resp.code = 500 /\ \A c \in comments : c.parentCommentId \notin resp.data)

\* C11 witness: a reply to a stored depth-5 comment has been refused.
C11_Witness ==
    /\ resp.op = "createComment"
    /\ resp.code = 500
    /\ \E parent \in comments : parent.id \in resp.data /\ parent.depth = 5
    /\ \E c \in comments : c.depth = 0 /\ c.parentCommentId # 0

\* C12: every stored post has an audio duration between 1 and 600 seconds
\* and every stored comment one of at most 120 seconds, although the upload
\* middleware admits up to 600 seconds for both.
C12_StoredDurationsWithinLimits ==
    /\ \A post \in posts : post.duration >= 1 /\ post.duration <= 600
    /\ \A c \in comments : c.duration <= 120

\* C12 witness: a comment whose audio passed the upload middleware (it
\* stayed below 600 s) was refused for exceeding 120 s, while posts of 1 s
\* and 600 s and a comment of 120 s are stored.
C12_Witness ==
    /\ resp.op = "createComment"
    /\ resp.code = 500
    /\ \E c \in comments : c.duration = 120
    /\ \E post \in posts : post.duration = 1
    /\ \E post \in posts : post.duration = 600

\* C13: the notification queue is first in, first out: processNotification
\* is started for notifications in exactly the order sendNotification
\* enqueued them, also for those enqueued while a drain is in progress.
C13_NotificationsStartedInOrder ==
    /\ Len(started) <= Len(enqueued)
    /\ \A i \in 1..Len(started) : started[i] = enqueued[i]
    /\ \A i \in 1..Len(notificationQueue) :
           notificationQueue[i].id = enqueued[Len(enqueued) - Len(notificationQueue) + i]

\* C13 witness: two notifications were enqueued during a drain and wait in
\* the queue, after an earlier drain had already started two.
C13_Witness ==
    /\ isProcessing
    /\ Len(notificationQueue) >= 2
    /\ Len(started) >= 2

\* Every notification enqueued so far has ended processNotification exactly
\* once, the queue is empty and no drain is in progress.
AllProcessedOnce ==
    /\ notificationQueue = <<>>
    /\ ~isProcessing
    /\ Len(processed) = Len(enqueued)
    /\ \A i \in 1..Len(enqueued) :
           Cardinality({j \in 1..Len(processed) : processed[j].id = enqueued[i]}) = 1

\* C14: every enqueued notification is eventually dequeued and processed
\* exactly once, after which the queue is empty and isProcessing is false; a
\* failure in one notification neither stops the drain of the others nor
\* makes the failed one be processed again.
C14_EveryNotificationProcessedOnce ==
    /\ [](\A i \in 1..Len(processed), j \in 1..Len(processed) :
              processed[i].id = processed[j].id => i = j)
    /\ []<>AllProcessedOnce

\* C14 witness: the queue has drained after a delivery failed in the middle
\* of it, with a notification behind the failed one.
C14_Witness ==
    /\ AllProcessedOnce
    /\ Len(processed) >= 3
    /\ \E i \in 1..(Len(processed) - 1) :
           /\ processed[i].status = "failed"
           /\ processed[i + 1].status = "sent"
           /\ started[i + 1] = processed[i + 1].id

\* C15: errorHandler maps every error to a status by its class: CastError
\* to 404; duplicate key, ValidationError and MulterError to 400; the JWT
\* errors to 401; Google Drive, network and Mongo connection errors to 503;
\* any other error to its own statusCode or 500; the body always has
\* success = false.
C15_StatusByErrorClass ==
    res.statusCode # 0 =>
        /\ res.success = FALSE
        /\ res.statusCode =
               CASE err.name = "CastError" -> 404
                 [] err.name \in {"MongoServerError", "ValidationError",
                                  "MulterError"} -> 400
                 [] err.name \in {"JsonWebTokenError", "TokenExpiredError"} -> 401
                 [] err.name \in {"MongoNetworkError", "MongoTimeoutError"} -> 503
                 [] err.name = "Error"
                      /\ (err.message = "failed for value Google Drive"
                          \/ err.code # "none") -> 503
                 [] OTHER -> IF err.statusCode # 0 THEN err.statusCode ELSE 500

\* C16: the general rate limiter lets each IP make 100 requests per window
\* to an endpoint guarded by generalLimiter: none of the first 100 requests
\* of a window is answered 429 by it, and the 101st is.
C16_HundredRequestsPerWindow ==
    (limited.guarded /\ limited.ip = "ip1") =>
        /\ limited.ordinal <= 100 => limited.status # 429
        /\ limited.ordinal = 101 => limited.status = 429

\* C17: under first-match routing every documented endpoint reaches the
\* handler declared for it; in particular GET /api/users/search reaches
\* searchUsers and GET /api/posts/trending and /explore reach
\* getTrendingPosts and getExplorePosts, none being captured by /:userId or
\* /:postId.
C17_EndpointsReachDeclaredHandler ==
    /\ (routed.router = "users" /\ routed.method = "GET" /\ routed.path = <<"search">>)
           => routed.handler = "searchUsers"
    /\ (routed.router = "posts" /\ routed.method = "GET" /\ routed.path = <<"trending">>)
           => routed.handler = "getTrendingPosts"
    /\ (routed.router = "posts" /\ routed.method = "GET" /\ routed.path = <<"explore">>)
           => routed.handler = "getExplorePosts"
    /\ (routed.router = "users" /\ routed.method = "GET" /\ routed.path = <<"me">>)
           => routed.handler = "getCurrentUser"
    /\ (routed.router = "posts" /\ routed.method = "GET" /\ routed.path = <<"feed">>)
           => routed.handler = "getUserFeed"
    /\ (routed.router = "posts" /\ routed.method = "GET" /\ routed.path = <<"id1">>)
           => routed.handler = "getPost"

\* C18: for every user, stats.connectionCount equals the number of accepted
\* Connection documents the user is a party of, in every state the
\* connection handlers reach.
C18_CountEqualsAcceptedConnections ==
    \A u \in Users :
        stats[u] = Cardinality({c \in connections :
                                    /\ c.status = "accepted"
                                    /\ (c.requesterId = u \/ c.recipientId = u)})

\* C20: respondToRequest by anyone other than the recipient, or on a
\* connection that is no longer pending, answers 403 and leaves the
\* connection documents (status, timestamps) and the connection counts as
\* they were; and no step takes an accepted or rejected connection back to
\* pending.
C20_RespondRefusedLeavesConnection ==
    [][/\ (/\ resp'.op = "respondToRequest"
           /\ resp'.target \in connections
           /\ (resp'.caller # resp'.target.recipientId
                \/ resp'.target.status # "pending"))
          => (resp'.code = 403 /\ connections' = connections /\ stats' = stats)
       /\ \A c \in connections :
              c.status \in {"accepted", "rejected"}
              => ~\E d \in connections' :
                     /\ d.requesterId = c.requesterId
                     /\ d.recipientId = c.recipientId
                     /\ d.status = "pending"]_vars

\* C20 witness: the recipient has answered a connection that was already
\* accepted and was refused with 403, the connection still accepted.
C20_Witness ==
    /\ resp.op = "respondToRequest"
    /\ resp.code = 403
    /\ resp.caller = resp.target.recipientId
    /\ resp.target.status = "accepted"
    /\ resp.target \in connections
    /\ resp.data = {"rejected"}

\* C19: at most one Connection document exists per unordered pair of users,
\* also when the requests of A to B and of B to A are handled concurrently
\* and both existence checks run before either save.
C19_OneConnectionPerPair ==
    \A a \in Users, b \in Users :
        Cardinality({c \in connections :
                        \/ (c.requesterId = a /\ c.recipientId = b)
                        \/ (c.requesterId = b /\ c.recipientId = a)}) <= 1

\* C21: whenever no contact reveal handler is under way, a user's
\* profile.contactRevealed is true only if an accepted ContactReveal with
\* that user as recipient is stored; this includes the states reached when
\* an accept raced with the cancellation of the same request and when
\* respondToContactRequest answered 500.
C21_RevealedFlagHasAcceptedReveal ==
    contactOps = {}
    => \A u \in Users :
           contactRevealed[u]
           => \E r \in reveals : r.status = "accepted" /\ r.recipientId = u

\* C10: no stored Connection has requesterId equal to recipientId.
C10_NoSelfConnection ==
    \A c \in connections : c.requesterId # c.recipientId

\* C10 witness: a user has tried to block their own id, and the save was
\* refused.
C10_Witness ==
    /\ resp.op = "blockUser"
    /\ resp.caller = resp.target
    /\ resp.code = 500

Next ==
    \/ ConnectionsNext
    \/ ContactNext
    \/ ProfileNext
    \/ PostsNext
    \/ AuthNext
    \/ CommentsNext
    \/ MediaNext
    \/ NotificationsNext
    \/ RacesNext
    \/ ContactRacesNext
    \/ RoutingNext
    \/ LimiterNext
    \/ ErrorsNext

Spec == Init /\ [][Next]_vars

====
